---- MODULE Spec2Model ----
(***************************************************************************)
(* Model of the Merkle B-tree of package merklebtree (merklebtree/btree.go) *)
(*                                                                         *)
(* Nodes live in a heap (a sequence of node records); a *Node is an index  *)
(* into the heap and 0 is the nil pointer.  Slice indices are 0-based, as  *)
(* in the Go source.  A []byte hash is a sequence of digest terms: nil is  *)
(* the empty sequence and the output of a hash function is one term that   *)
(* records its whole input (sha256 is taken to be collision free).         *)
(***************************************************************************)
EXTENDS Integers, Sequences, FiniteSets, TLC

VARIABLES Root, size, m, heap, op, ref, iter, mt, snap

vars == <<Root, size, m, heap, op, ref, iter, mt, snap>>

(* ------------------------------ bounds --------------------------------- *)
MaxOrder == 5
MaxKey == 7
MaxVal == 1
MaxPayloadKey == 2
MaxFailKey == 3
MaxDeepKey == 9
MaxIterKey == 5
MaxPutKey == 11
MaxTwoKey == 4
MaxLeaves == 6
MaxContent == 3
MaxStack == 8

MinOrder == 3

Orders == MinOrder..MaxOrder
Keys == 1..MaxKey
Vals == 0..MaxVal
\* the items a caller supplies: every key, with more than one payload for the
\* keys up to MaxPayloadKey
Items == {it \in Keys \X Vals : it[2] = 0 \/ it[1] <= MaxPayloadKey}

(* ------------------------------ pointers ------------------------------- *)
Nil == 0
Dangling == -1

(* --------------------------- slice helpers ----------------------------- *)
\* s[i] with a 0-based index
At(s, i) == s[i + 1]

\* s[a:b] with 0-based bounds
Slice(s, a, b) == SubSeq(s, a + 1, b)

\* variant: the new element is appended and never moved into place
InsertAt_appendOnly(s, pos, x) == Append(s, x)

\* append(s, nil); copy(s[pos+1:], s[pos:]); s[pos] = x
InsertAt(s, pos, x) == Slice(s, 0, pos) \o <<x>> \o Slice(s, pos, Len(s))

\* copy(s[index:], s[index+1:]); s = s[:len(s)-1]
RemoveAt(s, index) == Slice(s, 0, index) \o Slice(s, index + 1, Len(s))

\* s[i] = x
SetAt(s, i, x) == [s EXCEPT ![i + 1] = x]

(* ------------------------------ Content -------------------------------- *)
Key(item) == item[1]

\* the nil Content
NoItem == <<0, 0>>

Comparator(a, b) ==
    IF Key(a) > Key(b) THEN 1
    ELSE IF Key(a) < Key(b) THEN -1
    ELSE 0

\* sha256 of a byte string: one digest term recording the input
Sum(bytes) == <<[item |-> <<>>, parts |-> bytes]>>

\* a payload that json.Marshal rejects: CalculateHash of the item returns an error
BadVal == -1

ItemFails(item) == item[2] = BadVal

\* sha256 of the JSON encoding of an item
ItemCalculateHash(item) == <<[item |-> item, parts |-> <<>>]>>

\* hex.EncodeToString: one hex chunk per digest term, "" for no bytes
EncodeToString(bytes) == [i \in 1..Len(bytes) |-> [hex |-> bytes[i]]]

(* -------------------------------- Node --------------------------------- *)
NewNode(parent, contents, children) ==
    [Parent |-> parent, Hash |-> <<>>, Contents |-> contents, Children |-> children]

\* state threaded through the operations of one call
\*   Root, size, heap: the fields of the tree and the allocated nodes
\*   ev: the fixups the call went through
TreeState == [Root |-> Root, size |-> size, heap |-> heap, ev |-> {}]

Emit(s, e) == [s EXCEPT !.ev = @ \cup {e}]

Alloc(s, node) == [s EXCEPT !.heap = Append(@, node)]

RECURSIVE setParent(_, _, _)
setParent(s, nodes, parent) ==
    IF nodes = <<>>
    THEN s
    ELSE setParent([s EXCEPT !.heap[Head(nodes)].Parent = parent], Tail(nodes), parent)

(* ------------------------- digest maintenance -------------------------- *)
RECURSIVE Concat(_)
Concat(ss) == IF ss = <<>> THEN <<>> ELSE Head(ss) \o Concat(Tail(ss))

HashInput(s, node) ==
    Concat([i \in DOMAIN s.heap[node].Contents |->
                ItemCalculateHash(s.heap[node].Contents[i])])
    \o Concat([i \in DOMAIN s.heap[node].Children |->
                s.heap[s.heap[node].Children[i]].Hash])

\* the digest of some content of the node cannot be computed
HashFails(s, node) ==
    \E i \in DOMAIN s.heap[node].Contents : ItemFails(s.heap[node].Contents[i])

\* variant: the new digest is written after the bytes of the cached one
CalculateHash_chained(s, node) ==
    IF HashFails(s, node)
    THEN Emit(s, "hashError")
    ELSE [s EXCEPT !.heap[node].Hash = Sum(@ \o HashInput(s, node))]

\* on an error the cached digest is left as it is and the error is returned
\* the cached digest of some child of the node is not the digest of that
\* child's current contents and children
StaleChild(s, node) ==
    \E i \in DOMAIN s.heap[node].Children :
        s.heap[s.heap[node].Children[i]].Hash
            # Sum(HashInput(s, s.heap[node].Children[i]))

\* "staleChild" records that the digest was computed over such a child
CalculateHash(s, node) ==
    IF HashFails(s, node)
    THEN Emit(s, "hashError")
    ELSE [(IF StaleChild(s, node) THEN Emit(s, "staleChild") ELSE s)
             EXCEPT !.heap[node].Hash = Sum(HashInput(s, node))]

RECURSIVE ReCalculateMerkleRoot(_, _)
ReCalculateMerkleRoot(s, node) ==
    IF node = s.Root
    THEN CalculateHash(s, node)
    ELSE IF HashFails(s, node)
    THEN CalculateHash(s, node)
    ELSE ReCalculateMerkleRoot(CalculateHash(s, node), s.heap[node].Parent)

(* ------------------------------ capacity ------------------------------- *)
isLeaf(s, node) == Len(s.heap[node].Children) = 0

maxChildren == m

minChildren == (m + 1) \div 2

maxContents == maxChildren - 1

minContents == minChildren - 1

\* variant: the upper of the two middle positions
middle_upper == (m + 1) \div 2

middle == (m - 1) \div 2

\* variant: compares with the maximum number of children
shouldSplit_maxChildren(s, node) == Len(s.heap[node].Contents) > maxChildren

shouldSplit(s, node) == Len(s.heap[node].Contents) > maxContents

(* ------------------------------- search -------------------------------- *)
RECURSIVE searchLoop(_, _, _, _)
searchLoop(contents, item, low, high) ==
    IF low <= high
    THEN LET mid == (high + low) \div 2
             compare == Comparator(item, At(contents, mid))
         IN  IF compare > 0 THEN searchLoop(contents, item, mid + 1, high)
             ELSE IF compare < 0 THEN searchLoop(contents, item, low, mid - 1)
             ELSE [index |-> mid, found |-> TRUE]
    ELSE [index |-> low, found |-> FALSE]

search(s, node, item) ==
    searchLoop(s.heap[node].Contents, item, 0, Len(s.heap[node].Contents) - 1)

Empty(s) == s.size = 0

RECURSIVE searchDown(_, _, _)
searchDown(s, node, item) ==
    LET r == search(s, node, item)
    IN  IF r.found THEN [node |-> node, index |-> r.index, found |-> TRUE]
        ELSE IF isLeaf(s, node) THEN [node |-> Nil, index |-> -1, found |-> FALSE]
        ELSE searchDown(s, At(s.heap[node].Children, r.index), item)

searchRecursively(s, startNode, item) ==
    IF Empty(s)
    THEN [node |-> Nil, index |-> -1, found |-> FALSE]
    ELSE searchDown(s, startNode, item)

(* ------------------------------ insertion ------------------------------ *)
splitRoot(s) ==
    LET old == s.heap[s.Root]
        left == Len(s.heap) + 1
        right == Len(s.heap) + 2
        newRoot == Len(s.heap) + 3
        s1 == Alloc(Alloc(s,
                  NewNode(Nil, Slice(old.Contents, 0, middle), <<>>)),
                  NewNode(Nil, Slice(old.Contents, middle + 1, Len(old.Contents)), <<>>))
        \* Move children from the node to be split into left and right nodes
        s2 == IF ~isLeaf(s, s.Root)
              THEN LET lc == Slice(old.Children, 0, middle + 1)
                       rc == Slice(old.Children, middle + 1, Len(old.Children))
                   IN  setParent(setParent(
                           [s1 EXCEPT !.heap[left].Children = lc,
                                      !.heap[right].Children = rc],
                           lc, left), rc, right)
              ELSE s1
        s3 == CalculateHash(CalculateHash(s2, left), right)
        s4 == Alloc(s3, NewNode(Nil, <<At(old.Contents, middle)>>, <<left, right>>))
        s5 == [s4 EXCEPT !.heap[left].Parent = newRoot,
                         !.heap[right].Parent = newRoot,
                         !.Root = newRoot]
    IN  CalculateHash(Emit(s5, "splitRoot"), newRoot)

\* variant: the node is split in place, as the root is, and keeps the separator
splitNonRoot_inPlace(s, node) ==
    LET old == s.heap[node]
        left == Len(s.heap) + 1
        right == Len(s.heap) + 2
        s1 == Alloc(Alloc(s,
                  NewNode(node, Slice(old.Contents, 0, middle), <<>>)),
                  NewNode(node, Slice(old.Contents, middle + 1, Len(old.Contents)), <<>>))
        s2 == IF ~isLeaf(s, node)
              THEN LET lc == Slice(old.Children, 0, middle + 1)
                       rc == Slice(old.Children, middle + 1, Len(old.Children))
                   IN  setParent(setParent(
                           [s1 EXCEPT !.heap[left].Children = lc,
                                      !.heap[right].Children = rc],
                           lc, left), rc, right)
              ELSE s1
        s3 == CalculateHash(CalculateHash(s2, left), right)
        s4 == [s3 EXCEPT !.heap[node].Contents = <<At(old.Contents, middle)>>,
                         !.heap[node].Children = <<left, right>>]
    IN  ReCalculateMerkleRoot(Emit(s4, "splitLeaf"), node)

RECURSIVE split(_, _)
splitNonRoot(s, node) ==
    LET old == s.heap[node]
        parent == old.Parent
        left == Len(s.heap) + 1
        right == Len(s.heap) + 2
        s1 == Alloc(Alloc(s,
                  NewNode(parent, Slice(old.Contents, 0, middle), <<>>)),
                  NewNode(parent, Slice(old.Contents, middle + 1, Len(old.Contents)), <<>>))
        \* Move children from the node to be split into left and right nodes
        s2 == IF ~isLeaf(s, node)
              THEN LET lc == Slice(old.Children, 0, middle + 1)
                       rc == Slice(old.Children, middle + 1, Len(old.Children))
                   IN  setParent(setParent(
                           [s1 EXCEPT !.heap[left].Children = lc,
                                      !.heap[right].Children = rc],
                           lc, left), rc, right)
              ELSE s1
        insertPosition == search(s2, parent, At(old.Contents, middle)).index
        \* Insert middle key into parent, left and right nodes around it
        s3 == [s2 EXCEPT
                 !.heap[parent].Contents =
                     InsertAt(@, insertPosition, At(old.Contents, middle)),
                 !.heap[parent].Children =
                     InsertAt(SetAt(@, insertPosition, left), insertPosition + 1, right)]
        s4 == CalculateHash(CalculateHash(CalculateHash(s3, left), right), parent)
    IN  split(Emit(s4, IF isLeaf(s, node) THEN "splitLeaf" ELSE "splitInternal"), parent)

\* variant: a put that needs no split leaves the cached digests alone
split_noRehash(s, node) ==
    IF ~shouldSplit(s, node)
    THEN s
    ELSE IF node = s.Root
    THEN splitRoot(s)
    ELSE splitNonRoot(s, node)

split(s, node) ==
    IF ~shouldSplit(s, node)
    THEN ReCalculateMerkleRoot(s, node)
    ELSE IF node = s.Root
    THEN splitRoot(s)
    ELSE splitNonRoot(s, node)

\* variant: the key is inserted without looking whether it is already there
insertIntoLeaf_noFoundCheck(s, node, content) ==
    LET r == search(s, node, content)
    IN  [s |-> split([s EXCEPT !.heap[node].Contents =
                                   InsertAt(@, r.index, content)], node),
         inserted |-> ~r.found]

insertIntoLeaf(s, node, content) ==
    LET r == search(s, node, content)
    IN  IF r.found
        THEN [s |-> ReCalculateMerkleRoot(
                        [s EXCEPT !.heap[node].Contents = SetAt(@, r.index, content)],
                        node),
              inserted |-> FALSE]
        ELSE [s |-> split([s EXCEPT !.heap[node].Contents =
                                        InsertAt(@, r.index, content)], node),
              inserted |-> TRUE]

RECURSIVE insert(_, _, _)
\* variant: a key found in an internal node keeps its old item
insertIntoInternal_keepsOld(s, node, content) ==
    LET r == search(s, node, content)
    IN  IF r.found
        THEN [s |-> ReCalculateMerkleRoot(s, node), inserted |-> FALSE]
        ELSE insert(s, At(s.heap[node].Children, r.index), content)

insertIntoInternal(s, node, content) ==
    LET r == search(s, node, content)
    IN  IF r.found
        THEN [s |-> ReCalculateMerkleRoot(
                        [s EXCEPT !.heap[node].Contents = SetAt(@, r.index, content)],
                        node),
              inserted |-> FALSE]
        ELSE insert(s, At(s.heap[node].Children, r.index), content)

insert(s, node, content) ==
    IF isLeaf(s, node)
    THEN insertIntoLeaf(s, node, content)
    ELSE insertIntoInternal(s, node, content)

\* variant: the size is incremented whether or not the key was new
TreePut_alwaysCounts(s, item) ==
    IF s.Root = Nil
    THEN LET s1 == [Alloc(s, NewNode(Nil, <<item>>, <<>>)) EXCEPT
                        !.Root = Len(s.heap) + 1, !.size = @ + 1]
             s2 == ReCalculateMerkleRoot(s1, s1.Root)
         IN  IF "hashError" \in s2.ev THEN Emit(s2, "panic") ELSE s2
    ELSE [insert(s, s.Root, item).s EXCEPT !.size = @ + 1]

TreePut(s, item) ==
    IF s.Root = Nil
    THEN LET s1 == [Alloc(s, NewNode(Nil, <<item>>, <<>>)) EXCEPT
                        !.Root = Len(s.heap) + 1, !.size = @ + 1]
             s2 == ReCalculateMerkleRoot(s1, s1.Root)
         IN  IF "hashError" \in s2.ev THEN Emit(s2, "panic") ELSE s2
    ELSE LET r == insert(s, s.Root, item)
         IN  IF r.inserted THEN [r.s EXCEPT !.size = @ + 1] ELSE r.s

RECURSIVE left(_, _)
left(s, node) ==
    IF Empty(s) THEN Nil
    ELSE IF isLeaf(s, node) THEN node
    ELSE left(s, At(s.heap[node].Children, 0))

(* ------------------------------- deletion ------------------------------ *)
\* variant: the walk goes down the first child
RECURSIVE right_goesLeft(_, _)
right_goesLeft(s, node) ==
    IF Empty(s) THEN Nil
    ELSE IF isLeaf(s, node) THEN node
    ELSE right_goesLeft(s, At(s.heap[node].Children, 0))

RECURSIVE right(_, _)
right(s, node) ==
    IF Empty(s) THEN Nil
    ELSE IF isLeaf(s, node) THEN node
    ELSE right(s, At(s.heap[node].Children, Len(s.heap[node].Children) - 1))

\* variant: no node has a left sibling
leftSibling_none(s, node, item) == [node |-> Nil, index |-> -1]

leftSibling(s, node, item) ==
    LET parent == s.heap[node].Parent
    IN  IF parent # Nil
        THEN LET index == search(s, parent, item).index - 1
             IN  IF index >= 0 /\ index < Len(s.heap[parent].Children)
                 THEN [node |-> At(s.heap[parent].Children, index), index |-> index]
                 ELSE [node |-> Nil, index |-> -1]
        ELSE [node |-> Nil, index |-> -1]

rightSibling(s, node, item) ==
    LET parent == s.heap[node].Parent
    IN  IF parent # Nil
        THEN LET index == search(s, parent, item).index + 1
             IN  IF index < Len(s.heap[parent].Children)
                 THEN [node |-> At(s.heap[parent].Children, index), index |-> index]
                 ELSE [node |-> Nil, index |-> -1]
        ELSE [node |-> Nil, index |-> -1]

\* variant: the slice is shortened without shifting the tail down
deleteContent_dropsLast(s, node, index) ==
    [s EXCEPT !.heap[node].Contents = Slice(@, 0, Len(@) - 1)]

deleteContent(s, node, index) ==
    [s EXCEPT !.heap[node].Contents = RemoveAt(@, index)]

deleteChild(s, node, index) ==
    IF index >= Len(s.heap[node].Children)
    THEN s
    ELSE [s EXCEPT !.heap[node].Children = RemoveAt(@, index)]

\* variant: the children of fromNode go behind those of toNode
prependChildren_appends(s, fromNode, toNode) ==
    setParent([s EXCEPT !.heap[toNode].Children = @ \o s.heap[fromNode].Children],
              s.heap[fromNode].Children, toNode)

prependChildren(s, fromNode, toNode) ==
    setParent([s EXCEPT !.heap[toNode].Children = s.heap[fromNode].Children \o @],
              s.heap[fromNode].Children, toNode)

\* variant: the children are re-parented but not appended
appendChildren_parentsOnly(s, fromNode, toNode) ==
    setParent(s, s.heap[fromNode].Children, toNode)

appendChildren(s, fromNode, toNode) ==
    setParent([s EXCEPT !.heap[toNode].Children = @ \o s.heap[fromNode].Children],
              s.heap[fromNode].Children, toNode)

\* variant: the child that moves over keeps its old parent
borrowLeft_keepsParent(s, node, leftSibling_, leftSiblingIndex) ==
    LET parent == s.heap[node].Parent
        sib == s.heap[leftSibling_]
        s1 == [s EXCEPT
                 !.heap[node].Contents =
                     <<At(s.heap[parent].Contents, leftSiblingIndex)>> \o @,
                 !.heap[parent].Contents =
                     SetAt(@, leftSiblingIndex, At(sib.Contents, Len(sib.Contents) - 1))]
        s2 == deleteContent(s1, leftSibling_, Len(sib.Contents) - 1)
        s3 == IF ~isLeaf(s2, leftSibling_)
              THEN LET leftSiblingRightMostChild == At(sib.Children, Len(sib.Children) - 1)
                   IN  deleteChild(
                           [s2 EXCEPT
                              !.heap[node].Children = <<leftSiblingRightMostChild>> \o @],
                           leftSibling_, Len(sib.Children) - 1)
              ELSE s2
    IN  CalculateHash(CalculateHash(Emit(s3, "borrowLeft"), node), leftSibling_)

\* rotate right: borrow the last content (and child) of the left sibling
borrowLeft(s, node, leftSibling_, leftSiblingIndex) ==
    LET parent == s.heap[node].Parent
        sib == s.heap[leftSibling_]
        s1 == [s EXCEPT
                 !.heap[node].Contents =
                     <<At(s.heap[parent].Contents, leftSiblingIndex)>> \o @,
                 !.heap[parent].Contents =
                     SetAt(@, leftSiblingIndex, At(sib.Contents, Len(sib.Contents) - 1))]
        s2 == deleteContent(s1, leftSibling_, Len(sib.Contents) - 1)
        s3 == IF ~isLeaf(s2, leftSibling_)
              THEN LET leftSiblingRightMostChild == At(sib.Children, Len(sib.Children) - 1)
                   IN  deleteChild(
                           [s2 EXCEPT
                              !.heap[leftSiblingRightMostChild].Parent = node,
                              !.heap[node].Children = <<leftSiblingRightMostChild>> \o @],
                           leftSibling_, Len(sib.Children) - 1)
              ELSE s2
    IN  CalculateHash(CalculateHash(Emit(s3, "borrowLeft"), node), leftSibling_)

\* rotate left: borrow the first content (and child) of the right sibling
borrowRight(s, node, rightSibling_, rightSiblingIndex) ==
    LET parent == s.heap[node].Parent
        sib == s.heap[rightSibling_]
        s1 == [s EXCEPT
                 !.heap[node].Contents =
                     Append(@, At(s.heap[parent].Contents, rightSiblingIndex - 1)),
                 !.heap[parent].Contents =
                     SetAt(@, rightSiblingIndex - 1, At(sib.Contents, 0))]
        s2 == deleteContent(s1, rightSibling_, 0)
        s3 == IF ~isLeaf(s2, rightSibling_)
              THEN LET rightSiblingLeftMostChild == At(sib.Children, 0)
                   IN  deleteChild(
                           [s2 EXCEPT
                              !.heap[rightSiblingLeftMostChild].Parent = node,
                              !.heap[node].Children = Append(@, rightSiblingLeftMostChild)],
                           rightSibling_, 0)
              ELSE s2
    IN  CalculateHash(CalculateHash(Emit(s3, "borrowRight"), node), rightSibling_)

mergeRight(s, node, rightSibling_, rightSiblingIndex) ==
    LET parent == s.heap[node].Parent
        s1 == [s EXCEPT
                 !.heap[node].Contents =
                     Append(@, At(s.heap[parent].Contents, rightSiblingIndex - 1))
                     \o s.heap[rightSibling_].Contents]
        s2 == deleteContent(s1, parent, rightSiblingIndex - 1)
        s3 == appendChildren(s2, At(s2.heap[parent].Children, rightSiblingIndex), node)
        s4 == deleteChild(s3, parent, rightSiblingIndex)
    IN  CalculateHash(Emit(s4, "mergeRight"), node)

mergeLeft(s, node, leftSibling_, leftSiblingIndex) ==
    LET parent == s.heap[node].Parent
        s1 == [s EXCEPT
                 !.heap[node].Contents =
                     Append(s.heap[leftSibling_].Contents,
                            At(s.heap[parent].Contents, leftSiblingIndex)) \o @]
        s2 == deleteContent(s1, parent, leftSiblingIndex)
        s3 == prependChildren(s2, At(s2.heap[parent].Children, leftSiblingIndex), node)
        s4 == deleteChild(s3, parent, leftSiblingIndex)
    IN  CalculateHash(Emit(s4, "mergeLeft"), node)

\* the fixup that the node's neighbours among its parent's children call
\* for: borrow left, else borrow right, else merge right, else merge left
Fixup(s, node) ==
    LET children == s.heap[s.heap[node].Parent].Children
        i == CHOOSE j \in DOMAIN children : children[j] = node
        canLend(j) == /\ j \in DOMAIN children
                      /\ Len(s.heap[children[j]].Contents) > minContents
    IN  IF canLend(i - 1) THEN "borrowLeft"
        ELSE IF canLend(i + 1) THEN "borrowRight"
        ELSE IF i + 1 \in DOMAIN children THEN "mergeRight"
        ELSE IF i - 1 \in DOMAIN children THEN "mergeLeft"
        ELSE "noSibling"

\* "wrongFixup" records that a node below the root got another fixup
Chosen(s, node, fixup) ==
    IF s.heap[node].Parent = Nil \/ Fixup(s, node) = fixup
    THEN s
    ELSE Emit(s, "wrongFixup")

RECURSIVE rebalance(_, _, _)
rebalance(s, node, deletedItem) ==
    IF node = Nil
    THEN s
    ELSE IF Len(s.heap[node].Contents) >= minContents
    THEN ReCalculateMerkleRoot(s, node)
    ELSE
    LET ls == leftSibling(s, node, deletedItem)
        rs == rightSibling(s, node, deletedItem)
        parent == s.heap[node].Parent
    IN  IF ls.node # Nil /\ Len(s.heap[ls.node].Contents) > minContents
        THEN borrowLeft(Chosen(s, node, "borrowLeft"), node, ls.node, ls.index)
        ELSE IF rs.node # Nil /\ Len(s.heap[rs.node].Contents) > minContents
        THEN borrowRight(Chosen(s, node, "borrowRight"), node, rs.node, rs.index)
        ELSE
        LET merged == IF rs.node # Nil
                      THEN mergeRight(Chosen(s, node, "mergeRight"), node,
                                      rs.node, rs.index)
                      ELSE IF ls.node # Nil
                      THEN mergeLeft(Chosen(s, node, "mergeLeft"), node,
                                     ls.node, ls.index)
                      ELSE Emit(Chosen(s, node, "noSibling"), "noSibling")
            absorbed == IF rs.node # Nil
                        THEN At(s.heap[parent].Contents, rs.index - 1)
                        ELSE IF ls.node # Nil
                        THEN At(s.heap[parent].Contents, ls.index)
                        ELSE deletedItem
        IN  \* make the merged node the root if its parent was the root and is empty
            IF parent = merged.Root /\ Len(merged.heap[merged.Root].Contents) = 0
            THEN CalculateHash(
                     Emit([merged EXCEPT !.Root = node, !.heap[node].Parent = Nil],
                          "collapse"),
                     node)
            ELSE rebalance(merged, parent, absorbed)

\* variant: a root left without contents stays the root
delete_keepsEmptyRoot(s, node, index) ==
    IF isLeaf(s, node)
    THEN LET deletedKey == At(s.heap[node].Contents, index)
         IN  rebalance(deleteContent(s, node, index), node, deletedKey)
    ELSE LET leftLargestNode == right(s, At(s.heap[node].Children, index))
             leftLargestContentIndex == Len(s.heap[leftLargestNode].Contents) - 1
             deletedKey == At(s.heap[leftLargestNode].Contents, leftLargestContentIndex)
             s1 == [s EXCEPT !.heap[node].Contents = SetAt(@, index, deletedKey)]
             s2 == deleteContent(s1, leftLargestNode, leftLargestContentIndex)
         IN  rebalance(Emit(s2, "deleteInternal"), leftLargestNode, deletedKey)

delete(s, node, index) ==
    IF isLeaf(s, node)
    THEN LET deletedKey == At(s.heap[node].Contents, index)
             s1 == rebalance(deleteContent(s, node, index), node, deletedKey)
         IN  IF Len(s1.heap[s1.Root].Contents) = 0
             THEN [s1 EXCEPT !.Root = Nil]
             ELSE s1
    ELSE LET leftLargestNode == right(s, At(s.heap[node].Children, index))
             leftLargestContentIndex == Len(s.heap[leftLargestNode].Contents) - 1
             deletedKey == At(s.heap[leftLargestNode].Contents, leftLargestContentIndex)
             s1 == [s EXCEPT !.heap[node].Contents = SetAt(@, index, deletedKey)]
             s2 == deleteContent(s1, leftLargestNode, leftLargestContentIndex)
         IN  rebalance(Emit(s2, "deleteInternal"), leftLargestNode, deletedKey)

\* variant: the size is decremented whether or not the key was found
TreeRemove_alwaysDecrements(s, item) ==
    LET r == searchRecursively(s, s.Root, item)
    IN  IF r.found
        THEN [delete(s, r.node, r.index) EXCEPT !.size = @ - 1]
        ELSE [s EXCEPT !.size = @ - 1]

TreeRemove(s, item) ==
    LET r == searchRecursively(s, s.Root, item)
    IN  IF r.found
        THEN [delete(s, r.node, r.index) EXCEPT !.size = @ - 1]
        ELSE s

(* ------------------------------- queries ------------------------------- *)
Get(s, item) ==
    LET r == searchRecursively(s, s.Root, item)
    IN  IF r.found
        THEN [result |-> At(s.heap[r.node].Contents, r.index), found |-> TRUE]
        ELSE [result |-> item, found |-> FALSE]

Size(s) == s.size

MerkleBTreeRoot(s) ==
    IF s.Root = Nil THEN <<>> ELSE EncodeToString(s.heap[s.Root].Hash)

\* deep search the tree and return the nodes level by level
RECURSIVE deepSearchFrom(_, _, _)
deepSearchFrom(s, nodes, startnodes) ==
    LET nextnodes == Concat([i \in DOMAIN startnodes |->
                                s.heap[startnodes[i]].Children])
    IN  IF nextnodes = <<>> THEN Append(nodes, nextnodes)
        ELSE IF isLeaf(s, nextnodes[1]) THEN Append(nodes, nextnodes)
        ELSE deepSearchFrom(s, Append(nodes, nextnodes), nextnodes)

deepSearch(s) ==
    IF s.Root = Nil THEN <<>> ELSE deepSearchFrom(s, <<<<s.Root>>>>, <<s.Root>>)

\* reset each Hash of one level and compute it again; an error is dropped
RECURSIVE rehashLevel(_, _)
rehashLevel(s, level) ==
    IF level = <<>> THEN s
    ELSE rehashLevel(CalculateHash([s EXCEPT !.heap[Head(level)].Hash = <<>>],
                                   Head(level)),
                     Tail(level))

\* for i := len(nodes) - 1; i > 0; i--
RECURSIVE rehashLevels(_, _, _)
rehashLevels(s, nodes, i) ==
    IF i > 1 THEN rehashLevels(rehashLevel(s, nodes[i]), nodes, i - 1) ELSE s

calculateMerkleRoot(s) ==
    IF s.Root = Nil THEN [s |-> s, hex |-> <<>>]
    ELSE LET nodes == deepSearch(s)
             s1 == rehashLevels(s, nodes, Len(nodes))
         IN  [s |-> s1, hex |-> EncodeToString(s1.heap[nodes[1][1]].Hash)]

Left(s) == left(s, s.Root)

LeftItem(s) ==
    IF Left(s) # Nil THEN At(s.heap[Left(s)].Contents, 0) ELSE NoItem

Right(s) == right(s, s.Root)

\* variant: the first content of the right-most node
RightItem_first(s) ==
    IF Right(s) # Nil THEN At(s.heap[Right(s)].Contents, 0) ELSE NoItem

RightItem(s) ==
    IF Right(s) # Nil
    THEN At(s.heap[Right(s)].Contents, Len(s.heap[Right(s)].Contents) - 1)
    ELSE NoItem

\* variant: counts the steps down instead of the nodes met
RECURSIVE height_countsEdges(_, _)
height_countsEdges(s, node) ==
    IF node = Nil THEN 0
    ELSE IF Len(s.heap[node].Children) = 0 THEN 0
    ELSE 1 + height_countsEdges(s, At(s.heap[node].Children, 0))

RECURSIVE height(_, _)
height(s, node) ==
    IF node = Nil THEN 0
    ELSE IF Len(s.heap[node].Children) = 0 THEN 1
    ELSE 1 + height(s, At(s.heap[node].Children, 0))

Height(s) == height(s, s.Root)

\* full in-order traversal, as the iterator walks it
RECURSIVE InOrder(_, _)
InOrder(s, node) ==
    LET n == s.heap[node]
    IN  IF Len(n.Children) = 0
        THEN n.Contents
        ELSE Concat([i \in 1..(2 * Len(n.Contents) + 1) |->
                 IF i % 2 = 1
                 THEN InOrder(s, n.Children[(i + 1) \div 2])
                 ELSE <<n.Contents[i \div 2]>>])

\* the items the iterator yields by repeated Next()
IteratorItems(s) == IF s.Root = Nil THEN <<>> ELSE InOrder(s, s.Root)

\* make([]Content, tree.size), filled by the iterator; an entry that is never
\* assigned stays nil, and an item beyond tree.size is an index out of range
Contents(s) ==
    [i \in 1..(IF Len(IteratorItems(s)) > s.size THEN s.size + 1 ELSE s.size) |->
        IF i > s.size THEN <<-1, -1>>
        ELSE IF i <= Len(IteratorItems(s)) THEN IteratorItems(s)[i]
        ELSE NoItem]

\* a cursor over the items in ascending order: before the first item
\* ("begin"), at the item number idx ("between"), or after the last ("end")
IteratorBegin == [pos |-> "begin", idx |-> 0]

\* variant: the first step goes to the second item
IteratorNext_skipsFirst(s, c) ==
    LET n == Len(IteratorItems(s))
    IN  IF c.pos = "end" THEN [pos |-> "end", idx |-> 0, ok |-> FALSE]
        ELSE IF c.pos = "begin"
        THEN IF n < 2 THEN [pos |-> "end", idx |-> 0, ok |-> FALSE]
             ELSE [pos |-> "between", idx |-> 2, ok |-> TRUE]
        ELSE IF c.idx < n THEN [pos |-> "between", idx |-> c.idx + 1, ok |-> TRUE]
        ELSE [pos |-> "end", idx |-> 0, ok |-> FALSE]

\* advance by one position and report whether an item was reached
IteratorNext(s, c) ==
    LET n == Len(IteratorItems(s))
    IN  IF c.pos = "end" THEN [pos |-> "end", idx |-> 0, ok |-> FALSE]
        ELSE IF c.pos = "begin"
        THEN IF n = 0 THEN [pos |-> "end", idx |-> 0, ok |-> FALSE]
             ELSE [pos |-> "between", idx |-> 1, ok |-> TRUE]
        ELSE IF c.idx < n THEN [pos |-> "between", idx |-> c.idx + 1, ok |-> TRUE]
        ELSE [pos |-> "end", idx |-> 0, ok |-> FALSE]

\* go back by one position and report whether an item was reached
IteratorPrev(s, c) ==
    LET n == Len(IteratorItems(s))
    IN  IF c.pos = "begin" THEN [pos |-> "begin", idx |-> 0, ok |-> FALSE]
        ELSE IF c.pos = "end"
        THEN IF n = 0 THEN [pos |-> "begin", idx |-> 0, ok |-> FALSE]
             ELSE [pos |-> "between", idx |-> n, ok |-> TRUE]
        ELSE IF c.idx > 1 THEN [pos |-> "between", idx |-> c.idx - 1, ok |-> TRUE]
        ELSE [pos |-> "begin", idx |-> 0, ok |-> FALSE]

\* the item at the cursor
IteratorItem(s, c) == IteratorItems(s)[c.idx]

(* ------------------------- node identity ------------------------------- *)
\* Nodes that are no longer reachable from the root are collected; the
\* surviving nodes are named by their position in a pre-order walk, so that
\* two trees that differ only in the addresses of their nodes are one state.
RECURSIVE Reach(_, _)
Reach(h, node) ==
    <<node>> \o Concat([i \in DOMAIN h[node].Children |-> Reach(h, h[node].Children[i])])

Renumber(s, order) ==
    LET addr(old) == IF old = Nil THEN Nil
                     ELSE IF \E i \in DOMAIN order : order[i] = old
                     THEN CHOOSE i \in DOMAIN order : order[i] = old
                     ELSE Dangling
    IN  [s EXCEPT
           !.Root = addr(@),
           !.heap = [i \in DOMAIN order |->
                       [Parent |-> addr(s.heap[order[i]].Parent),
                        Hash |-> s.heap[order[i]].Hash,
                        Contents |-> s.heap[order[i]].Contents,
                        Children |-> [j \in DOMAIN s.heap[order[i]].Children |->
                                         addr(s.heap[order[i]].Children[j])]]]]

Collect(s) == Renumber(s, IF s.Root = Nil THEN <<>> ELSE Reach(s.heap, s.Root))

(* ============ the static hash tree of merkle_tree.go =================== *)
(* The file holds two packages: merkletree (Keccak256, pairs sorted by the  *)
(* hex form of their digests, GetMerklePath) and merkle (sha256, the last   *)
(* leaf doubled when the leaves are odd in number, VerifyContent).  A test  *)
(* content is a number; two contents are equal when the numbers are.        *)
NoContent == -1

\* a content whose CalculateHash returns an error
BadContent == 0

ContentFails(c) == c = BadContent

ContentHash(c) == <<[item |-> c, parts |-> <<>>]>>

Equals(c, other) == c = other

Keccak256(bytes) == <<[item |-> NoContent, parts |-> bytes]>>

\* sha256.New, Write, Sum of package merkle
Sha256(bytes) == <<[item |-> NoContent, parts |-> bytes]>>

\* position of hex.EncodeToString(hash) in the order of sort.Strings: any
\* total order on digests; this one numbers the digest terms injectively
RECURSIVE HexRank(_)
HexRank(hash) ==
    LET t == hash[1]
    IN  IF t.parts = <<>> THEN t.item
        ELSE LET a == HexRank(<<t.parts[1]>>)
                 b == HexRank(<<t.parts[2]>>)
             IN  ((a + b) * (a + b + 1)) \div 2 + b + MaxContent + 1

NoTree == [Root |-> Nil, merkleRoot |-> <<>>, Leafs |-> <<>>, heap |-> <<>>]

\* the addresses 1..k of the first k nodes of a heap
RECURSIVE Addresses(_)
Addresses(k) == IF k = 0 THEN <<>> ELSE Append(Addresses(k - 1), k)

\* leaf nodes of package merkletree, in the order of cs
RECURSIVE makeLeafs(_, _)
makeLeafs(cs, h) ==
    IF cs = <<>> THEN h
    ELSE makeLeafs(Tail(cs),
                   Append(h, [Parent |-> Nil, Left |-> Nil, Right |-> Nil,
                              Hash |-> ContentHash(Head(cs)), C |-> Head(cs)]))

\* buildIntermediate of package merkletree.  h is the heap of nodes, nl the
\* level being paired (node addresses; at the first level it is the slice
\* of leaves itself, which the swap reorders), nodes the level above, i the
\* loop index and depth the number of nested calls.
RECURSIVE buildIntermediate(_, _, _)
RECURSIVE buildPairs(_, _, _, _, _)
buildPairs(h, nl, nodes, i, depth) ==
    IF i >= Len(nl)
    THEN [buildIntermediate(h, nodes, depth + 1) EXCEPT !.nl = nl]
    ELSE IF i + 1 = Len(nl)
    THEN LET n == Len(h) + 1
             h1 == Append(h, [Parent |-> Nil, Left |-> At(nl, i), Right |-> Nil,
                              Hash |-> h[At(nl, i)].Hash, C |-> NoContent])
             h2 == [h1 EXCEPT ![At(nl, i)].Parent = n]
         IN  buildPairs(h2, nl, Append(nodes, n), i + 2, depth)
    ELSE LET swap == HexRank(h[At(nl, i + 1)].Hash) <= HexRank(h[At(nl, i)].Hash)
             nl1 == IF swap
                    THEN SetAt(SetAt(nl, i, At(nl, i + 1)), i + 1, At(nl, i))
                    ELSE nl
             n == Len(h) + 1
             h1 == Append(h, [Parent |-> Nil, Left |-> At(nl1, i),
                              Right |-> At(nl1, i + 1),
                              Hash |-> Keccak256(h[At(nl1, i)].Hash
                                                 \o h[At(nl1, i + 1)].Hash),
                              C |-> NoContent])
             h2 == [h1 EXCEPT ![At(nl1, i)].Parent = n, ![At(nl1, i + 1)].Parent = n]
         IN  IF Len(nl) = 2
             THEN [status |-> "ok", heap |-> h2, root |-> n, nl |-> nl1]
             ELSE buildPairs(h2, nl1, Append(nodes, n), i + 2, depth)

\* a goroutine whose calls nest without end dies of stack overflow
buildIntermediate(h, nl, depth) ==
    IF depth > MaxStack
    THEN [status |-> "stack overflow", heap |-> h, root |-> Nil, nl |-> nl]
    ELSE buildPairs(h, nl, <<>>, 0, depth)

buildWithContent(cs) ==
    IF Len(cs) = 0
    THEN [status |-> "error", heap |-> <<>>, root |-> Nil, nl |-> <<>>]
    ELSE IF \E j \in DOMAIN cs : ContentFails(cs[j])
    THEN [status |-> "error", heap |-> <<>>, root |-> Nil, nl |-> <<>>]
    ELSE LET h == makeLeafs(cs, <<>>)
             leafs == Addresses(Len(cs))
         IN  buildIntermediate(h, leafs, 1)

\* variant: an empty list yields a tree without nodes
NewTree_emptyIsFine(cs) ==
    LET r == buildWithContent(cs)
    IN  IF r.status = "error" /\ Len(cs) > 0
        THEN [status |-> r.status, tree |-> NoTree]
        ELSE IF r.status = "error"
        THEN [status |-> "ok", tree |-> NoTree]
        ELSE IF r.status # "ok"
        THEN [status |-> r.status, tree |-> NoTree]
        ELSE [status |-> "ok",
              tree |-> [Root |-> r.root, merkleRoot |-> r.heap[r.root].Hash,
                        Leafs |-> r.nl, heap |-> r.heap]]

\* status "error": err # nil and the tree is nil; any other status than
\* "ok": the call did not return
NewTree(cs) ==
    LET r == buildWithContent(cs)
    IN  IF r.status # "ok"
        THEN [status |-> r.status, tree |-> NoTree]
        ELSE [status |-> "ok",
              tree |-> [Root |-> r.root, merkleRoot |-> r.heap[r.root].Hash,
                        Leafs |-> r.nl, heap |-> r.heap]]

\* the walk of GetMerklePath from a leaf up to the root
RECURSIVE climb(_, _, _, _)
climb(t, current, merklePath, index) ==
    LET currentParent == t.heap[current].Parent
    IN  IF currentParent = Nil
        THEN [status |-> "ok", found |-> TRUE, merklePath |-> merklePath, index |-> index]
        ELSE IF t.heap[t.heap[currentParent].Left].Hash = t.heap[current].Hash
        THEN IF t.heap[currentParent].Right = Nil
             THEN [status |-> "nil pointer dereference", found |-> TRUE,
                   merklePath |-> merklePath, index |-> index]
             ELSE climb(t, currentParent,
                        Append(merklePath, t.heap[t.heap[currentParent].Right].Hash),
                        Append(index, 1))
        ELSE climb(t, currentParent,
                   Append(merklePath, t.heap[t.heap[currentParent].Left].Hash),
                   Append(index, 0))

GetMerklePath(t, content) ==
    IF \E j \in DOMAIN t.Leafs : Equals(t.heap[t.Leafs[j]].C, content)
    THEN LET j == CHOOSE j \in DOMAIN t.Leafs :
                      /\ Equals(t.heap[t.Leafs[j]].C, content)
                      /\ \A k \in 1..(j - 1) : ~Equals(t.heap[t.Leafs[k]].C, content)
         IN  climb(t, t.Leafs[j], <<>>, <<>>)
    ELSE [status |-> "ok", found |-> FALSE, merklePath |-> <<>>, index |-> <<>>]

(* ------------------------- package merkle ------------------------------ *)
RECURSIVE merkle_makeLeafs(_, _)
merkle_makeLeafs(cs, h) ==
    IF cs = <<>> THEN h
    ELSE merkle_makeLeafs(Tail(cs),
             Append(h, [Parent |-> Nil, Left |-> Nil, Right |-> Nil,
                        leaf |-> TRUE, dup |-> FALSE,
                        Hash |-> ContentHash(Head(cs)), C |-> Head(cs)]))

\* nl[i+1] beyond the end of nl is an index out of range
RECURSIVE merkle_buildPairs(_, _, _, _)
merkle_buildPairs(h, nl, nodes, i) ==
    IF i >= Len(nl)
    THEN merkle_buildPairs(h, nodes, <<>>, 0)
    ELSE IF i + 1 >= Len(nl)
    THEN [status |-> "index out of range", heap |-> h, root |-> Nil]
    ELSE LET n == Len(h) + 1
             h1 == Append(h, [Parent |-> Nil, Left |-> At(nl, i),
                              Right |-> At(nl, i + 1),
                              leaf |-> FALSE, dup |-> FALSE,
                              Hash |-> Sha256(h[At(nl, i)].Hash \o h[At(nl, i + 1)].Hash),
                              C |-> NoContent])
             h2 == [h1 EXCEPT ![At(nl, i)].Parent = n, ![At(nl, i + 1)].Parent = n]
         IN  IF Len(nl) = 2
             THEN [status |-> "ok", heap |-> h2, root |-> n]
             ELSE merkle_buildPairs(h2, nl, Append(nodes, n), i + 2)

merkle_buildIntermediate(h, nl) == merkle_buildPairs(h, nl, <<>>, 0)

merkle_buildWithContent(cs) ==
    IF Len(cs) = 0
    THEN [status |-> "error", heap |-> <<>>, root |-> Nil, leafs |-> <<>>]
    ELSE LET h == merkle_makeLeafs(cs, <<>>)
             odd == Len(cs) % 2 = 1
             leafs == IF odd THEN Append(Addresses(Len(cs)), Len(cs))
                      ELSE Addresses(Len(cs))
             h1 == IF odd THEN [h EXCEPT ![Len(cs)].dup = TRUE] ELSE h
             r == merkle_buildIntermediate(h1, leafs)
         IN  [status |-> r.status, heap |-> r.heap, root |-> r.root, leafs |-> leafs]

merkle_NewTree(cs) ==
    LET r == merkle_buildWithContent(cs)
    IN  IF r.status # "ok"
        THEN [status |-> r.status, tree |-> NoTree]
        ELSE [status |-> "ok",
              tree |-> [Root |-> r.root, merkleRoot |-> r.heap[r.root].Hash,
                        Leafs |-> r.leafs, heap |-> r.heap]]

MerkleRoot(t) == t.merkleRoot

\* variant: the right digest goes first
calculateNodeHash_swapped(t, n) ==
    IF t.heap[n].leaf
    THEN ContentHash(t.heap[n].C)
    ELSE Sha256(t.heap[t.heap[n].Right].Hash \o t.heap[t.heap[n].Left].Hash)

calculateNodeHash(t, n) ==
    IF t.heap[n].leaf
    THEN ContentHash(t.heap[n].C)
    ELSE Sha256(t.heap[t.heap[n].Left].Hash \o t.heap[t.heap[n].Right].Hash)

\* the loop of VerifyContent over the ancestors of the leaf
RECURSIVE verifyUp(_, _)
verifyUp(t, currentParent) ==
    IF currentParent = Nil THEN TRUE
    ELSE IF Sha256(calculateNodeHash(t, t.heap[currentParent].Left)
                \o calculateNodeHash(t, t.heap[currentParent].Right))
            # t.heap[currentParent].Hash
    THEN FALSE
    ELSE verifyUp(t, t.heap[currentParent].Parent)

\* expectedMerkleRoot is not read
VerifyContent(t, expectedMerkleRoot, content) ==
    IF \E j \in DOMAIN t.Leafs : Equals(t.heap[t.Leafs[j]].C, content)
    THEN LET j == CHOOSE j \in DOMAIN t.Leafs :
                      /\ Equals(t.heap[t.Leafs[j]].C, content)
                      /\ \A k \in 1..(j - 1) : ~Equals(t.heap[t.Leafs[k]].C, content)
         IN  verifyUp(t, t.heap[t.Leafs[j]].Parent)
    ELSE FALSE

(* ------------------------------- actions ------------------------------- *)
NoRef == [k \in {} |-> 0]

\* no call on a static hash tree yet
NoRet == [found |-> FALSE, merklePath |-> <<>>, index |-> <<>>, ok |-> FALSE]

NoCall == [call |-> "none", pkg |-> "none", cs |-> <<>>, status |-> "none",
           tree |-> NoTree, arg |-> NoContent, ret |-> NoRet,
           root |-> <<>>]

\* no iterator has been asked for
NoIter == [pos |-> "none", idx |-> 0, call |-> "none", ok |-> FALSE,
           from |-> "none", seen |-> <<>>]

\* no other tree has been kept aside
NoSnap == [taken |-> FALSE, ref |-> NoRef, shape |-> <<>>, hex |-> <<>>]

\* the item last put under the key of item and not removed since, if any
Stored(item) == IF Key(item) \in DOMAIN ref THEN ref[Key(item)] ELSE NoItem

\* variant: the check lets order 2 through
NewWith_acceptsTwo(order) ==
    IF order < MinOrder - 1
    THEN [panic |-> TRUE, Root |-> Nil, size |-> 0, m |-> 0]
    ELSE [panic |-> FALSE, Root |-> Nil, size |-> 0, m |-> order]

\* a panic produces no tree: the fields are those of the zero Tree
NewWith(order) ==
    IF order < MinOrder
    THEN [panic |-> TRUE, Root |-> Nil, size |-> 0, m |-> 0]
    ELSE [panic |-> FALSE, Root |-> Nil, size |-> 0, m |-> order]

\* the state after NewWith(order); op.item[1] records the order asked for
Constructed(order) ==
    /\ m = NewWith(order).m
    /\ Root = NewWith(order).Root
    /\ size = NewWith(order).size
    /\ heap = <<>>
    /\ op = [name |-> "NewWith", item |-> <<order, 0>>, present |-> FALSE,
             prev |-> NoItem, rep |-> FALSE,
             ev |-> IF NewWith(order).panic THEN {"panic"} ELSE {},
             ret |-> <<>>]
    /\ ref = NoRef
    /\ iter = NoIter
    /\ mt = NoCall
    /\ snap = NoSnap

Init == \E order \in Orders : Constructed(order)

\* the methods need the tree that NewWith returned
TreeExists == ~(op.name = "NewWith" /\ "panic" \in op.ev)

Store(c) ==
    /\ Root' = c.Root
    /\ size' = c.size
    /\ heap' = c.heap

Commit(s) == Store(Collect(s))

PutDone(item, s) ==
        /\ TreeExists
        /\ Commit(s)
        /\ op' = [name |-> "Put", item |-> item,
                  present |-> Key(item) \in DOMAIN ref,
                  prev |-> Stored(item),
                  rep |-> (op.name = "Put" /\ op.item = item), ev |-> s.ev,
                  ret |-> <<>>]
        /\ ref' = [k \in DOMAIN ref \cup {Key(item)} |->
                      IF k = Key(item) THEN item ELSE ref[k]]
        /\ iter' = NoIter
        /\ UNCHANGED <<m, mt, snap>>

Put(item) == PutDone(item, TreePut(TreeState, item))

Remove(item) ==
    LET s == TreeRemove(TreeState, item)
    IN  /\ TreeExists
        /\ Commit(s)
        /\ op' = [name |-> "Remove", item |-> item,
                  present |-> Key(item) \in DOMAIN ref,
                  prev |-> Stored(item),
                  rep |-> (op.name = "Remove" /\ op.item = item), ev |-> s.ev,
                  ret |-> <<>>]
        /\ ref' = [k \in DOMAIN ref \ {Key(item)} |-> ref[k]]
        /\ iter' = NoIter
        /\ UNCHANGED <<m, mt, snap>>

\* variant: the root is dropped but the count stays
TreeClear_keepsSize(s) == [s EXCEPT !.Root = Nil]

TreeClear(s) == [s EXCEPT !.Root = Nil, !.size = 0]

\* op.present records whether there was anything to clear
Clear ==
    LET s == TreeClear(TreeState)
    IN  /\ TreeExists
        /\ Commit(s)
        /\ op' = [name |-> "Clear", item |-> NoItem,
                  present |-> Root # Nil,
                  prev |-> NoItem, rep |-> FALSE, ev |-> s.ev, ret |-> <<>>]
        /\ ref' = NoRef
        /\ iter' = NoIter
        /\ UNCHANGED <<m, mt, snap>>

\* tree.calculateMerkleRoot(): op.ret records the string returned
CalculateMerkleRootDone(r) ==
    /\ TreeExists
    /\ Commit(r.s)
    /\ op' = [name |-> "calculateMerkleRoot", item |-> NoItem,
              present |-> Root # Nil, prev |-> NoItem, rep |-> FALSE,
              ev |-> r.s.ev, ret |-> r.hex]
    /\ UNCHANGED <<m, ref, iter, mt, snap>>

CalculateMerkleRoot == CalculateMerkleRootDone(calculateMerkleRoot(TreeState))

\* Tree.Iterator(): a new cursor before the first item
Iterator ==
    /\ TreeExists
    /\ iter' = [pos |-> IteratorBegin.pos, idx |-> IteratorBegin.idx,
                call |-> "Iterator", ok |-> FALSE,
                from |-> IteratorBegin.pos, seen |-> <<>>]
    /\ UNCHANGED <<Root, size, m, heap, op, ref, mt, snap>>

\* one call of Next() or Prev() on the cursor; iter.seen lists the items
\* visited by the calls of the same name made in a row, and iter.from is the
\* position at which that row of calls started
Step(call, r) ==
    /\ iter.pos # "none"
    /\ iter' = [pos |-> r.pos, idx |-> r.idx, call |-> call, ok |-> r.ok,
              from |-> IF iter.call = call THEN iter.from ELSE iter.pos,
              seen |-> (IF iter.call = call THEN iter.seen ELSE <<>>)
                       \o (IF r.ok THEN <<IteratorItem(TreeState, r)>> ELSE <<>>)]
    /\ UNCHANGED <<Root, size, m, heap, op, ref, mt, snap>>

ItNext == Step("Next", IteratorNext(TreeState, iter))

ItPrev == Step("Prev", IteratorPrev(TreeState, iter))

\* lists of at most MaxLeaves contents drawn from cset
RECURSIVE Lists(_, _)
Lists(cset, k) ==
    IF k = 0 THEN {<<>>}
    ELSE Lists(cset, k - 1)
         \cup {Append(l, c) : l \in {x \in Lists(cset, k - 1) : Len(x) = k - 1},
                              c \in cset}

\* merkletree.NewTree(cs); contents whose digest fails are among the inputs
CallNewTree ==
    \E cs \in Lists(0..MaxContent, MaxLeaves) :
        /\ mt.call = "none"
        /\ mt' = [call |-> "NewTree", pkg |-> "merkletree", cs |-> cs,
                  status |-> NewTree(cs).status, tree |-> NewTree(cs).tree,
                  arg |-> NoContent, ret |-> NoRet,
                  root |-> <<>>]
        /\ UNCHANGED <<Root, size, m, heap, op, ref, iter, snap>>

\* merkle.NewTree(cs); CalculateHash of package merkle cannot fail
CallMerkleNewTree ==
    \E cs \in Lists(1..MaxContent, MaxLeaves) :
        /\ mt.call = "none"
        /\ mt' = [call |-> "NewTree", pkg |-> "merkle", cs |-> cs,
                  status |-> merkle_NewTree(cs).status,
                  tree |-> merkle_NewTree(cs).tree,
                  arg |-> NoContent, ret |-> NoRet,
                  root |-> <<>>]
        /\ UNCHANGED <<Root, size, m, heap, op, ref, iter, snap>>

\* tree.GetMerklePath(content) on a tree that NewTree returned
CallGetMerklePath ==
    \E content \in 1..(MaxContent + 1) :
        /\ mt.pkg = "merkletree"
        /\ mt.status = "ok"
        /\ mt' = [mt EXCEPT !.call = "GetMerklePath", !.arg = content,
                            !.status = GetMerklePath(mt.tree, content).status,
                            !.ret = [found |-> GetMerklePath(mt.tree, content).found,
                                     merklePath |-> GetMerklePath(mt.tree, content).merklePath,
                                     index |-> GetMerklePath(mt.tree, content).index,
                                     ok |-> FALSE]]
        /\ UNCHANGED <<Root, size, m, heap, op, ref, iter, snap>>

\* tree.VerifyContent(tree.MerkleRoot(), content) on a tree that NewTree returned
CallVerifyContent ==
    \E content \in 1..(MaxContent + 1) :
        /\ mt.pkg = "merkle"
        /\ mt.status = "ok"
        /\ mt' = [mt EXCEPT !.call = "VerifyContent", !.arg = content,
                            !.root = MerkleRoot(mt.tree),
                            !.ret = [found |-> FALSE, merklePath |-> <<>>,
                                     index |-> <<>>,
                                     ok |-> VerifyContent(mt.tree, MerkleRoot(mt.tree),
                                                          content)]]
        /\ UNCHANGED <<Root, size, m, heap, op, ref, iter, snap>>

Next ==
    \/ \E item \in Items : Put(item)
    \/ \E item \in Items : Remove(item)
    \/ Clear

Spec == Init /\ [][Next]_vars

\* callers that also ask for orders below the minimum
TryOrders == 0..MaxOrder

InitNew == \E order \in TryOrders : Constructed(order)

SpecNew == InitNew /\ [][Next]_vars

\* callers that also supply items whose digest cannot be computed
FailKeys == 1..MaxFailKey

NextFail ==
    \/ \E item \in FailKeys \X {0, BadVal} : Put(item)
    \/ \E item \in FailKeys \X {0} : Remove(item)
    \/ Clear

SpecFail == Init /\ [][NextFail]_vars

\* callers with enough keys for three levels with a well filled internal node
DeepKeys == 1..MaxDeepKey

InitDeep == Constructed(MinOrder)

NextDeep ==
    \/ \E item \in DeepKeys \X {0} : Put(item)
    \/ \E item \in DeepKeys \X {0} : Remove(item)
    \/ Clear

SpecDeep == InitDeep /\ [][NextDeep]_vars

\* callers that also walk the tree with an iterator between two mutations
IterKeys == 1..MaxIterKey

InitIter == Constructed(MinOrder)

NextIter ==
    \/ \E item \in IterKeys \X {0} : Put(item)
    \/ \E item \in IterKeys \X {0} : Remove(item)
    \/ Clear
    \/ Iterator
    \/ ItNext
    \/ ItPrev

SpecIter == InitIter /\ [][NextIter]_vars

\* callers that only put, with enough keys for a split below the root of
\* a tree of three levels
PutItems == {i \in (1..MaxPutKey) \X Vals : i[2] = 0 \/ i[1] = MaxPayloadKey}

InitPuts == Constructed(MinOrder)

NextPuts == \E item \in PutItems : Put(item)

SpecPuts == InitPuts /\ [][NextPuts]_vars

\* callers that build a tree by puts only and then remove one item
NextPutsRemove ==
    \/ \E item \in Items : op.name # "Remove" /\ Put(item)
    \/ \E item \in Items : op.name # "Remove" /\ Remove(item)

SpecPutsRemove == Init /\ [][NextPutsRemove]_vars

\* callers that compare the root digest with the recomputation, as the
\* tests do with assertValidMerkleRoot
NextOracle ==
    \/ \E item \in Items : Put(item)
    \/ \E item \in Items : Remove(item)
    \/ CalculateMerkleRoot

SpecOracle == Init /\ [][NextOracle]_vars

\* callers of the static hash tree: one tree is built, then it is queried
\* digests a caller may hold that are not the tree's Merkle root: none, and
\* the digest of the first leaf
OtherRoots(t) == {<<>>, t.heap[t.Leafs[1]].Hash} \ {MerkleRoot(t)}

\* t.VerifyContent(expectedMerkleRoot, content) with such a digest
CallVerifyContentAgainst ==
    /\ mt.pkg = "merkle"
    /\ mt.status = "ok"
    /\ \E content \in 1..(MaxContent + 1) :
          \E expectedMerkleRoot \in OtherRoots(mt.tree) :
              mt' = [mt EXCEPT !.call = "VerifyContent", !.arg = content,
                               !.root = expectedMerkleRoot,
                               !.ret = [found |-> FALSE, merklePath |-> <<>>,
                                        index |-> <<>>,
                                        ok |-> VerifyContent(mt.tree,
                                                             expectedMerkleRoot,
                                                             content)]]
    /\ UNCHANGED <<Root, size, m, heap, op, ref, iter, snap>>

InitStatic == Constructed(MinOrder)

NextStatic ==
    \/ CallNewTree
    \/ CallMerkleNewTree
    \/ CallGetMerklePath
    \/ CallVerifyContent

SpecStatic == InitStatic /\ [][NextStatic]_vars

\* callers that also verify a content against a digest of their own
NextVerify ==
    \/ CallMerkleNewTree
    \/ CallVerifyContent
    \/ CallVerifyContentAgainst

SpecVerify == InitStatic /\ [][NextVerify]_vars

(* ===================== properties of the B-tree ======================== *)
Nodes == DOMAIN heap

NonRoot == Nodes \ {Root}

Leaf(n) == Len(heap[n].Children) = 0

KeysOf(n) == [i \in DOMAIN heap[n].Contents |-> Key(heap[n].Contents[i])]

RECURSIVE SubtreeKeys(_)
SubtreeKeys(n) ==
    {Key(heap[n].Contents[i]) : i \in DOMAIN heap[n].Contents}
    \cup UNION {SubtreeKeys(heap[n].Children[j]) : j \in DOMAIN heap[n].Children}

RECURSIVE Depth(_)
Depth(n) == IF n = Root THEN 1 ELSE 1 + Depth(heap[n].Parent)

RECURSIVE ShapeOf(_)
ShapeOf(n) ==
    [keys |-> KeysOf(n),
     kids |-> [j \in DOMAIN heap[n].Children |-> ShapeOf(heap[n].Children[j])]]

TreeShape == IF Root = Nil THEN <<>> ELSE <<ShapeOf(Root)>>

\* the fixups the last call went through
Did(e) == e \in op.ev

\* callers that build two trees of one order, one after the other: the
\* first tree is kept aside (its items, arrangement and root digest) and
\* NewWith(m) gives the second, which is then the tree the puts go to
SecondTree ==
    /\ TreeExists
    /\ ~snap.taken
    /\ Root # Nil
    /\ snap' = [taken |-> TRUE, ref |-> ref, shape |-> TreeShape,
                hex |-> MerkleBTreeRoot(TreeState)]
    /\ Root' = NewWith(m).Root
    /\ size' = NewWith(m).size
    /\ heap' = <<>>
    /\ op' = [name |-> "NewWith", item |-> <<m, 0>>, present |-> FALSE,
              prev |-> NoItem, rep |-> FALSE, ev |-> {}, ret |-> <<>>]
    /\ ref' = NoRef
    /\ UNCHANGED <<m, iter, mt>>

TwoItems == {i \in (1..MaxTwoKey) \X Vals : i[2] = 0 \/ i[1] = MaxPayloadKey}

InitTwo == Constructed(MinOrder)

NextTwo ==
    \/ \E item \in TwoItems : Put(item)
    \/ SecondTree

SpecTwo == InitTwo /\ [][NextTwo]_vars

\* digest of a node recomputed from scratch, post-order, from the contents alone
RECURSIVE ScratchHash(_)
ScratchHash(n) ==
    Sum(Concat([i \in DOMAIN heap[n].Contents |-> ItemCalculateHash(heap[n].Contents[i])])
        \o Concat([j \in DOMAIN heap[n].Children |-> ScratchHash(heap[n].Children[j])]))

ScratchRootHex == IF Root = Nil THEN <<>> ELSE EncodeToString(ScratchHash(Root))

\* C1: after every put or remove, rootDigestHex() equals the root digest
\* recomputed from scratch over the current contents and structure, and it
\* is "" when the tree is empty.
C1_RootDigestIsScratchDigest ==
    /\ MerkleBTreeRoot(TreeState) = ScratchRootHex
    /\ (size = 0 => MerkleBTreeRoot(TreeState) = <<>>)

\* C2: get(k) finds exactly the keys that were put and not removed since,
\* and returns the item of the most recent put of that key.
C2_GetReturnsLatestPut ==
    \A item \in Items :
        LET g == Get(TreeState, item)
        IN  /\ g.found = (Key(item) \in DOMAIN ref)
            /\ g.found => g.result = ref[Key(item)]

C2_Witness ==
    /\ op.name = "Put"
    /\ op.present
    /\ op.prev # op.item
    /\ Root # Nil
    /\ ~Leaf(Root)
    /\ Get(TreeState, op.prev) = [result |-> op.item, found |-> TRUE]
    /\ \E k \in Keys : ~Get(TreeState, <<k, 0>>).found

\* C3: the items of each node are strictly ascending, and around item i of
\* an internal node everything under child i is smaller and everything
\* under child i+1 is larger.
C3_Ordered ==
    \A n \in Nodes :
        /\ \A i, j \in DOMAIN heap[n].Contents :
               i < j => Key(heap[n].Contents[i]) < Key(heap[n].Contents[j])
        /\ ~Leaf(n) =>
               \A i \in DOMAIN heap[n].Contents :
                   /\ i + 1 <= Len(heap[n].Children)
                   /\ \A k \in SubtreeKeys(heap[n].Children[i]) :
                          k < Key(heap[n].Contents[i])
                   /\ \A k \in SubtreeKeys(heap[n].Children[i + 1]) :
                          k > Key(heap[n].Contents[i])

C3_Witness ==
    /\ op.name = "Put"
    /\ Did("splitLeaf")
    /\ Did("splitRoot")
    /\ \E n \in NonRoot : ~Leaf(n)

CeilHalf(x) == (x \div 2) + (x % 2)

\* C4: every non-root node holds between ceil(m/2)-1 and m-1 items and the
\* root holds at most m-1 items.
C4_NodeFill ==
    /\ \A n \in NonRoot :
           /\ Len(heap[n].Contents) >= CeilHalf(m) - 1
           /\ Len(heap[n].Contents) <= m - 1
    /\ Root # Nil => Len(heap[Root].Contents) <= m - 1

C4_Witness ==
    /\ op.name = "Remove"
    /\ Did("mergeRight") \/ Did("mergeLeft")
    /\ m >= 4
    /\ \E n \in NonRoot : Len(heap[n].Contents) = CeilHalf(m) - 1
    /\ \E n \in NonRoot : Len(heap[n].Contents) > CeilHalf(m) - 1

RECURSIVE LeafDepths(_)
LeafDepths(n) ==
    IF Leaf(n) THEN {1}
    ELSE UNION {{d + 1 : d \in LeafDepths(heap[n].Children[j])} :
                    j \in DOMAIN heap[n].Children}

\* C5: all leaves are at the same depth from the root.
C5_LeavesAtEqualDepth ==
    Root # Nil => Cardinality(LeafDepths(Root)) = 1

C5_Witness ==
    /\ op.name = "Remove"
    /\ Did("collapse")
    /\ Root # Nil
    /\ LeafDepths(Root) = {2}

\* C6: every node has no children or exactly one child more than items.
C6_ChildCount ==
    \A n \in Nodes :
        \/ Len(heap[n].Children) = 0
        \/ Len(heap[n].Children) = Len(heap[n].Contents) + 1

C6_Witness ==
    /\ op.name = "Remove"
    /\ Did("mergeRight")
    /\ Did("collapse")
    /\ ~Leaf(Root)
    /\ Len(heap[Root].Children) = Len(heap[Root].Contents) + 1

\* the items put and not removed since, in ascending key order
RECURSIVE Ascending(_)
Ascending(ks) ==
    IF ks = {} THEN <<>>
    ELSE LET k == CHOOSE x \in ks : \A y \in ks : x <= y
         IN  <<ref[k]>> \o Ascending(ks \ {k})

\* C7: contents() returns exactly size() items: every stored item once,
\* with the payload of its latest put, in strictly ascending order.
C7_ContentsAscending ==
    LET c == Contents(TreeState)
    IN  /\ Len(c) = Size(TreeState)
        /\ c = Ascending(DOMAIN ref)
        /\ \A i, j \in DOMAIN c : i < j => Comparator(c[i], c[j]) < 0

C7_Witness ==
    /\ op.name = "Remove"
    /\ Did("deleteInternal")
    /\ Len(Contents(TreeState)) >= 4
    /\ \E k \in DOMAIN ref : ref[k][2] # 0
    /\ ~Leaf(Root)

StoredCount ==
    Cardinality({<<n, i>> \in Nodes \X (1..(MaxOrder + 1)) : i <= Len(heap[n].Contents)})

\* C8: size() is the number of items stored in the nodes; a put of a new key
\* adds one, a put of a present key and a remove of an absent key leave it
\* unchanged, a remove of a present key subtracts one; isEmpty() is size() = 0.
C8_SizeCountsItems ==
    /\ [](/\ Size(TreeState) = StoredCount
          /\ Empty(TreeState) <=> (Size(TreeState) = 0))
    /\ [][/\ (op'.name = "Put" /\ ~op'.present) => size' = size + 1
          /\ (op'.name = "Put" /\ op'.present) => size' = size
          /\ (op'.name = "Remove" /\ op'.present) => size' = size - 1
          /\ (op'.name = "Remove" /\ ~op'.present) => size' = size]_vars

C8_Witness ==
    /\ op.name = "Remove"
    /\ op.present
    /\ Did("mergeLeft")
    /\ size >= 3
    /\ size = StoredCount

\* C9: remove of a key that is not in the tree changes nothing: structure,
\* items, size and every cached digest stay as they were.
C9_RemoveAbsentIsNoOp ==
    [][(op'.name = "Remove" /\ ~op'.present) =>
           /\ Root' = Root
           /\ size' = size
           /\ heap' = heap
           /\ MerkleBTreeRoot(TreeState)' = MerkleBTreeRoot(TreeState)]_vars

C9_Witness ==
    /\ op.name = "Remove"
    /\ ~op.present
    /\ Root # Nil
    /\ ~Leaf(Root)
    /\ size >= 3

\* the node holding the key of item, and that node with its ancestors
Holder(item) == searchRecursively(TreeState, Root, item).node

RECURSIVE PathToRoot(_)
PathToRoot(n) == IF n = Nil \/ n = Dangling THEN {} ELSE {n} \cup PathToRoot(heap[n].Parent)

\* C10: put of a key already present replaces the stored item, changes
\* neither size() nor the shape, and changes no cached digest outside the
\* node holding the key and its ancestors.
C10_OverwriteTouchesOnlyPath ==
    [][(op'.name = "Put" /\ op'.present) =>
           /\ size' = size
           /\ TreeShape' = TreeShape
           /\ DOMAIN heap' = DOMAIN heap
           /\ Get(TreeState', op'.item) = [result |-> op'.item, found |-> TRUE]
           /\ \A n \in Nodes :
                  n \notin PathToRoot(Holder(op'.item)) => heap'[n].Hash = heap[n].Hash]_vars

C10_Witness ==
    /\ op.name = "Put"
    /\ op.present
    /\ op.prev # op.item
    /\ Holder(op.item) # Nil
    /\ ~Leaf(Holder(op.item))
    /\ Holder(op.item) # Root
    /\ Nodes \ PathToRoot(Holder(op.item)) # {}

\* C11: a put that repeats the preceding put (same key, same value) leaves
\* the shape, size() and rootDigestHex() as the first put left them.
C11_PutTwiceIsPutOnce ==
    [][(op.name = "Put" /\ op'.name = "Put" /\ op'.item = op.item) =>
           /\ TreeShape' = TreeShape
           /\ size' = size
           /\ MerkleBTreeRoot(TreeState') = MerkleBTreeRoot(TreeState)]_vars

C11_Witness ==
    /\ op.name = "Put"
    /\ op.rep
    /\ op.prev = op.item
    /\ Root # Nil
    /\ ~Leaf(Root)
    /\ MerkleBTreeRoot(TreeState) # <<>>

\* C12: once every key that was put has been removed again, in whatever
\* order, the tree is empty: size() is 0, the root is absent, height() is 0
\* and rootDigestHex() is "".
C12_RoundTripToEmpty ==
    (op.name = "Remove" /\ DOMAIN ref = {}) =>
        /\ Size(TreeState) = 0
        /\ Root = Nil
        /\ Height(TreeState) = 0
        /\ MerkleBTreeRoot(TreeState) = <<>>

C12_Witness ==
    /\ op.name = "Remove"
    /\ op.present
    /\ DOMAIN ref = {}
    /\ Root = Nil
    /\ m > MinOrder

\* C13: a put on an empty tree of an item whose digest cannot be computed
\* reports the failure and leaves the tree empty (no root, size() = 0).
C13_FailedFirstPutLeavesTreeEmpty ==
    [][(op'.name = "Put" /\ Root = Nil /\ ItemFails(op'.item)) =>
           /\ "panic" \in op'.ev
           /\ Root' = Nil
           /\ size' = 0]_vars

\* C14: a put or remove during which the digest of a stored item cannot be
\* computed reports a failure to its caller.
C14_DigestFailureIsReported ==
    Did("hashError") => Did("panic")

\* C15: creating a tree with an order below 3 fails and produces no tree;
\* with an order of at least 3 it yields an empty tree of that order
\* (size() = 0, rootDigestHex() = "", height() = 0).
C15_NewWithChecksOrder ==
    op.name = "NewWith" =>
        IF op.item[1] < 3
        THEN Did("panic") /\ ~TreeExists
        ELSE /\ ~Did("panic")
             /\ TreeExists
             /\ m = op.item[1]
             /\ Size(TreeState) = 0
             /\ Empty(TreeState)
             /\ MerkleBTreeRoot(TreeState) = <<>>
             /\ Height(TreeState) = 0

C15_Witness ==
    /\ op.name = "NewWith"
    /\ op.item[1] = 2
    /\ Did("panic")
    /\ ~ENABLED Next

\* C16: when the key is not in the tree, Get returns nil as its result
\* together with found = false.
C16_GetMissReturnsNil ==
    \A item \in Items :
        ~Get(TreeState, item).found => Get(TreeState, item).result = NoItem

\* shape of a leaf and of an internal node, as assertValidTreeNode reads them
LeafShape(ks) == [keys |-> ks, kids |-> <<>>]

NodeShape(ks, kids) == [keys |-> ks, kids |-> kids]

\* ScenarioA[k + 1] is the tree of order 3 after the puts of 1..k
ScenarioA ==
    << <<>>,
       <<LeafShape(<<1>>)>>,
       <<LeafShape(<<1, 2>>)>>,
       <<NodeShape(<<2>>, <<LeafShape(<<1>>), LeafShape(<<3>>)>>)>>,
       <<NodeShape(<<2>>, <<LeafShape(<<1>>), LeafShape(<<3, 4>>)>>)>>,
       <<NodeShape(<<2, 4>>,
                   <<LeafShape(<<1>>), LeafShape(<<3>>), LeafShape(<<5>>)>>)>>,
       <<NodeShape(<<2, 4>>,
                   <<LeafShape(<<1>>), LeafShape(<<3>>), LeafShape(<<5, 6>>)>>)>>,
       <<NodeShape(<<4>>,
                   <<NodeShape(<<2>>, <<LeafShape(<<1>>), LeafShape(<<3>>)>>),
                     NodeShape(<<6>>, <<LeafShape(<<5>>), LeafShape(<<7>>)>>)>>)>> >>

\* C17: in a tree of order 3, putting 1,2,...,7 in that order into the empty
\* tree goes through the shapes {1}, {1,2}, {2}/({1},{3}), {2}/({1},{3,4}),
\* {2,4}/({1},{3},{5}), {2,4}/({1},{3},{5,6}) and ends with root {4},
\* children {2} and {6}, leaves {1},{3},{5},{7}.
C17_ScenarioAShapes ==
    [][\A k \in 1..7 :
          (m = 3 /\ TreeShape = ScenarioA[k]
                 /\ op'.name = "Put" /\ Key(op'.item) = k)
              => (TreeShape' = ScenarioA[k + 1] /\ size' = k)]_vars

C17_Witness ==
    /\ m = 3
    /\ op.name = "Put"
    /\ Key(op.item) = 7
    /\ ~op.present
    /\ Did("splitLeaf")
    /\ Did("splitRoot")
    /\ TreeShape = ScenarioA[8]
    /\ size = 7

\* the trees that TestBTreeRemove6 and TestBTreeRemove7 expect
AfterRemove7 ==
    <<NodeShape(<<2, 4>>,
                <<LeafShape(<<1>>), LeafShape(<<3>>), LeafShape(<<5, 6>>)>>)>>

AfterRemove1 ==
    <<NodeShape(<<4, 6>>,
                <<LeafShape(<<2, 3>>), LeafShape(<<5>>), LeafShape(<<7>>)>>)>>

\* C18: from the tree of order 3 built by the puts of 1..7 (root {4},
\* children {2},{6}, leaves {1},{3},{5},{7}), removing 7 gives root {2,4}
\* with leaves {1},{3},{5,6}, and removing 1 instead gives root {4,6} with
\* leaves {2,3},{5},{7}.
C18_ScenarioBShapes ==
    [][(m = 3 /\ TreeShape = ScenarioA[8] /\ op'.name = "Remove") =>
          /\ Key(op'.item) = 7 => (TreeShape' = AfterRemove7 /\ size' = 6)
          /\ Key(op'.item) = 1 => (TreeShape' = AfterRemove1 /\ size' = 6)]_vars

C18_Witness ==
    /\ m = 3
    /\ op.name = "Remove"
    /\ Key(op.item) = 7
    /\ op.present
    /\ Did("mergeLeft")
    /\ Did("collapse")
    /\ TreeShape = AfterRemove7
    /\ Height(TreeState) = 2

\* C19: after every put or remove, the root has no parent and the parent
\* reference of every other node is the node that lists it among its
\* children, whatever splits, borrows, merges and collapses the call made.
C19_ParentsConsistent ==
    /\ Root # Nil => heap[Root].Parent = Nil
    /\ \A n \in Nodes : \A j \in DOMAIN heap[n].Children :
           /\ heap[n].Children[j] \in Nodes
           /\ heap[heap[n].Children[j]].Parent = n

\* a removal that merged two leaves and then borrowed, with the child that
\* comes along, one level up
C19_Witness ==
    /\ op.name = "Remove"
    /\ Did("mergeLeft") \/ Did("mergeRight")
    /\ Did("borrowLeft")
    /\ Height(TreeState) = 3
    /\ \E n \in NonRoot : Len(heap[n].Children) = 2
    /\ \E n \in NonRoot : Len(heap[n].Children) > 0 /\ heap[n].Parent = Root

\* C20: Clear, from any reachable state, leaves the empty tree of the same
\* order: size() is 0, the tree is empty, rootDigestHex() is "", height()
\* is 0, Get finds no key, and the tree is in the very state NewWith left a
\* new tree of that order in, so that the calls that follow behave as on a
\* new tree.
C20_ClearResets ==
    [][op'.name = "Clear" =>
          /\ Size(TreeState') = 0
          /\ Empty(TreeState')
          /\ MerkleBTreeRoot(TreeState') = <<>>
          /\ Height(TreeState') = 0
          /\ \A item \in Items : ~Get(TreeState', item).found
          /\ ~NewWith(m).panic
          /\ m' = NewWith(m).m
          /\ Root' = NewWith(m).Root
          /\ size' = NewWith(m).size
          /\ heap' = <<>>]_vars

C20_Witness ==
    /\ op.name = "Clear"
    /\ op.present
    /\ Root = Nil
    /\ size = 0
    /\ m = MaxOrder

\* C21: Height is 0 for an empty tree and otherwise the number of levels
\* (1 for a single leaf root), which is the number of nodes on every path
\* from the root to a leaf.
C21_HeightIsLevels ==
    /\ Root = Nil => Height(TreeState) = 0
    /\ (Root # Nil /\ Leaf(Root)) => Height(TreeState) = 1
    /\ Root # Nil => LeafDepths(Root) = {Height(TreeState)}
    /\ \A n \in Nodes : Leaf(n) => Cardinality(PathToRoot(n)) = Height(TreeState)

C21_Witness ==
    /\ op.name = "Put"
    /\ Did("splitRoot")
    /\ Height(TreeState) = 3
    /\ \E n \in Nodes : Leaf(n) /\ Depth(n) = 3

SmallestKey == CHOOSE k \in DOMAIN ref : \A j \in DOMAIN ref : k <= j

LargestKey == CHOOSE k \in DOMAIN ref : \A j \in DOMAIN ref : k >= j

\* C22: after any puts and removes, LeftItem is the smallest stored item and
\* RightItem the largest, each as its latest put left it; Left, Right,
\* LeftItem and RightItem are nil on the empty tree.
C22_LeftAndRight ==
    IF DOMAIN ref = {}
    THEN /\ Left(TreeState) = Nil
         /\ Right(TreeState) = Nil
         /\ LeftItem(TreeState) = NoItem
         /\ RightItem(TreeState) = NoItem
    ELSE /\ LeftItem(TreeState) = ref[SmallestKey]
         /\ RightItem(TreeState) = ref[LargestKey]
         /\ Left(TreeState) \in Nodes /\ Leaf(Left(TreeState))
         /\ Right(TreeState) \in Nodes /\ Leaf(Right(TreeState))

\* the smallest key was overwritten, and the right-most leaf holds two items
C22_Witness ==
    /\ op.name = "Put"
    /\ op.present
    /\ op.prev # op.item
    /\ Key(op.item) = SmallestKey
    /\ LeftItem(TreeState) = op.item
    /\ Height(TreeState) >= 2
    /\ Len(heap[Right(TreeState)].Contents) = 2
    /\ Left(TreeState) # Right(TreeState)

StrictlyAscending(items) ==
    \A i \in 1..(Len(items) - 1) : Key(items[i]) < Key(items[i + 1])

StrictlyDescending(items) ==
    \A i \in 1..(Len(items) - 1) : Key(items[i]) > Key(items[i + 1])

AllStored(items) == {items[i] : i \in DOMAIN items} = {ref[k] : k \in DOMAIN ref}

\* C23: starting before the first item, repeated Next() visits every
\* stored item once in strictly ascending order, true size() times and then
\* false; on the empty tree the first Next() and the first Prev() are false;
\* once Next() has returned false, repeated Prev() visits the items in
\* strictly descending order down to the smallest.
C23_IteratorVisitsAll ==
    /\ (iter.call = "Next" /\ iter.from = "begin") =>
           /\ StrictlyAscending(iter.seen)
           /\ Len(iter.seen) <= Size(TreeState)
           /\ iter.ok => Len(iter.seen) >= 1
           /\ ~iter.ok => (Len(iter.seen) = Size(TreeState) /\ AllStored(iter.seen))
    /\ (iter.call \in {"Next", "Prev"} /\ Size(TreeState) = 0) => ~iter.ok
    /\ (iter.call = "Prev" /\ iter.from = "end") =>
           /\ StrictlyDescending(iter.seen)
           /\ Len(iter.seen) <= Size(TreeState)
           /\ ~iter.ok => /\ Len(iter.seen) = Size(TreeState)
                        /\ AllStored(iter.seen)
                        /\ (Size(TreeState) > 0 =>
                               iter.seen[Len(iter.seen)] = ref[SmallestKey])

\* a whole walk back over a tree of two levels, after a whole walk forward
C23_Witness ==
    /\ iter.call = "Prev"
    /\ iter.from = "end"
    /\ ~iter.ok
    /\ Len(iter.seen) = MaxIterKey - 1
    /\ Height(TreeState) = 2
    /\ op.name = "Remove"
    /\ Did("mergeLeft") \/ Did("mergeRight")

ListedIn(c, cs) == \E j \in DOMAIN cs : cs[j] = c

\* C24: NewTree of an empty list of contents returns an error and no tree.
C24_EmptyListIsAnError ==
    (mt.call = "NewTree" /\ mt.cs = <<>>) =>
        /\ mt.status = "error"
        /\ mt.tree = NoTree

C24_Witness ==
    /\ mt.call = "NewTree"
    /\ mt.pkg = "merkletree"
    /\ mt.cs = <<>>
    /\ mt.status = "error"

\* C25: NewTree of a non-empty list of contents whose digests can all be
\* computed, of whatever length, returns a tree with a root digest, without
\* error and without crashing.
C25_NewTreeBuildsEveryList ==
    (mt.call = "NewTree" /\ mt.cs # <<>>
         /\ \A j \in DOMAIN mt.cs : ~ContentFails(mt.cs[j])) =>
        /\ mt.status = "ok"
        /\ mt.tree.Root # Nil
        /\ mt.tree.merkleRoot # <<>>

\* the digest that a verifier computes from a leaf digest and a Merkle path
RECURSIVE FoldPath(_, _, _)
FoldPath(hash, merklePath, index) ==
    IF merklePath = <<>> THEN hash
    ELSE FoldPath(Keccak256(IF Head(index) = 1
                            THEN hash \o Head(merklePath)
                            ELSE Head(merklePath) \o hash),
                  Tail(merklePath), Tail(index))

\* C26: for every content c of a tree built by NewTree, GetMerklePath(c)
\* returns sibling digests and indexes of equal length, and folding the
\* digest of c's leaf with them from the leaf up gives the Merkle root.
C26_MerklePathLeadsToRoot ==
    (mt.call = "GetMerklePath" /\ ListedIn(mt.arg, mt.cs)) =>
        /\ mt.status = "ok"
        /\ Len(mt.ret.merklePath) = Len(mt.ret.index)
        /\ FoldPath(ContentHash(mt.arg), mt.ret.merklePath, mt.ret.index)
               = mt.tree.merkleRoot

\* C27: on a tree that NewTree has just built, VerifyContent is true for
\* every content of the list and false for a content that is not in it.
C27_VerifyContentTellsMembers ==
    mt.call = "VerifyContent" => (mt.ret.ok = ListedIn(mt.arg, mt.cs))

\* a member of a list of odd length, whose last leaf was doubled
C27_Witness ==
    /\ mt.call = "VerifyContent"
    /\ Len(mt.cs) = 3
    /\ mt.arg = mt.cs[3]
    /\ mt.cs[1] # mt.cs[2]
    /\ mt.ret.ok
    /\ mt.tree.heap[mt.tree.Leafs[4]].dup

Borrowed == Did("borrowLeft") \/ Did("borrowRight")

Merged == Did("mergeLeft") \/ Did("mergeRight")

\* C29: in a tree built by puts only, a remove that resolves its underflow
\* by borrowing from a sibling returns with the cached digests of the
\* parent and of every ancestor up to the root equal to the digests of
\* their current contents and children; the root is the last of these.
C29_BorrowLeavesAncestorsFresh ==
    (op.name = "Remove" /\ Borrowed /\ ~Merged) =>
        heap[Root].Hash = Sum(HashInput(TreeState, Root))

\* C30: in a tree built by puts only, a remove that leaves the tree
\* non-empty and neither borrows nor merges leaves rootDigestHex() equal to
\* the from-scratch digest, also when the tree is a single root node left
\* with fewer than minContents items.
C30_PlainRemoveKeepsRootDigest ==
    (op.name = "Remove" /\ Root # Nil /\ ~Borrowed /\ ~Merged) =>
        MerkleBTreeRoot(TreeState) = ScratchRootHex

\* C31: calculateMerkleRoot recomputes every digest from the leaves up to
\* and including the root, so the string it returns is the digest of the
\* tree's current contents and structure, whatever root digest was cached
\* before the call.
C31_OracleRecomputesTheRoot ==
    op.name = "calculateMerkleRoot" => op.ret = ScratchRootHex

C33_ChildrenRefreshedFirst ==
    op.name \in {"Put", "Remove"} => ~Did("staleChild")

\* C34: a node below the root that underflows in a remove borrows from its
\* left sibling if that has more than minContents items, otherwise borrows
\* from its right sibling if that has more than minContents items,
\* otherwise merges with its right sibling if there is one, otherwise with
\* its left sibling; after a merge the parent is treated in the same way.
C34_FixupOrder ==
    op.name = "Remove" => ~Did("wrongFixup")

C34_Witness ==
    /\ op.name = "Remove" /\ ~Did("wrongFixup")
    /\ Did("mergeLeft") /\ Did("borrowLeft")

\* the leaf that a put of the new key k reaches from node n
RECURSIVE LeafFor(_, _)
LeafFor(n, k) ==
    IF heap[n].Children = <<>> THEN n
    ELSE LeafFor(heap[n].Children[
             1 + Cardinality({i \in DOMAIN heap[n].Contents :
                                 Key(heap[n].Contents[i]) < k})], k)

\* the contents of node n with the new item in its place
WithItem(n, item) ==
    LET c == heap[n].Contents
        pos == Cardinality({i \in DOMAIN c : Key(c[i]) < Key(item)})
    IN  SubSeq(c, 1, pos) \o <<item>> \o SubSeq(c, pos + 1, Len(c))

\* C35: when a put overfills a leaf, so that it holds m items, the leaf is
\* split: a left leaf holds the floor((m-1)/2) smallest items, the item at
\* index floor((m-1)/2) is the separator in an internal node, and a right
\* leaf holds the remaining items; the right leaf has one item more than
\* the left when m is even and as many when m is odd, both have at least
\* minContents items; a split root leaves a root of one item whose two
\* children divide the items and the children in the same way.
C35_SplitHalves ==
    [][(op'.name = "Put" /\ ~op'.present /\ Root # Nil)  =>
        LET X == LeafFor(Root, Key(op'.item))
            all == WithItem(X, op'.item)
            pivot == (m - 1) \div 2
            extra == IF m % 2 = 0 THEN 1 ELSE 0
        IN  /\ Len(all) = m =>
                /\ \E L, R, P \in DOMAIN heap' :
                      /\ heap'[L].Children = <<>>
                      /\ heap'[R].Children = <<>>
                      /\ heap'[L].Contents = SubSeq(all, 1, pivot)
                      /\ heap'[R].Contents = SubSeq(all, pivot + 2, m)
                      /\ Len(heap'[R].Contents) = Len(heap'[L].Contents) + extra
                      /\ Len(heap'[L].Contents) >= (m + 1) \div 2 - 1
                      /\ Len(heap'[R].Contents) >= (m + 1) \div 2 - 1
                      /\ heap'[P].Children # <<>>
                      /\ \E i \in DOMAIN heap'[P].Contents :
                            heap'[P].Contents[i] = all[pivot + 1]
                /\ "splitLeaf" \in op'.ev \/ "splitRoot" \in op'.ev
            /\ "splitRoot" \in op'.ev =>
                /\ Len(heap'[Root'].Contents) = 1
                /\ Len(heap'[Root'].Children) = 2
                /\ LET L == heap'[Root'].Children[1]
                       R == heap'[Root'].Children[2]
                   IN  /\ Len(heap'[L].Contents) = pivot
                       /\ Len(heap'[R].Contents) = pivot + extra
                       /\ heap'[L].Children # <<>> =>
                             /\ Len(heap'[L].Children) = pivot + 1
                             /\ Len(heap'[R].Children) = pivot + extra + 1
       ]_vars

C35_Witness ==
    /\ op.name = "Put" /\ ~op.present /\ Did("splitLeaf") /\ m = MinOrder + 1
    /\ Height(TreeState) = 2 /\ Len(heap[Root].Contents) = 2

\* the tree as the call leaves it
TreeStateAfter == [Root |-> Root', size |-> size', heap |-> heap', ev |-> {}]

\* C36: a put leaves Height() unchanged or adds one, and adds one exactly
\* when the root is split or the first item creates the root; a remove
\* leaves Height() unchanged or takes one off, and takes one off exactly
\* when the root collapses or the last item is removed.
C36_HeightStepsByOne ==
    [][/\ op'.name = "Put" =>
            /\ Height(TreeStateAfter) \in {Height(TreeState), Height(TreeState) + 1}
            /\ Height(TreeStateAfter) = Height(TreeState) + 1
                  <=> ("splitRoot" \in op'.ev \/ Root = Nil)
       /\ op'.name = "Remove" =>
            /\ Height(TreeStateAfter) \in {Height(TreeState), Height(TreeState) - 1}
            /\ Height(TreeStateAfter) = Height(TreeState) - 1
                  <=> ("collapse" \in op'.ev \/ (op'.present /\ size' = 0))
      ]_vars

C36_Witness ==
    /\ op.name = "Remove" /\ Did("collapse") /\ Height(TreeState) = 2

\* the sequence without its j-th element
Without(seq, j) == SubSeq(seq, 1, j - 1) \o SubSeq(seq, j + 1, Len(seq))

\* C37: a remove of an item k held by an internal node puts the in-order
\* predecessor of k, the last item of the right-most leaf of the subtree
\* left of k, into k's slot, takes it out of that leaf and rebalances from
\* that leaf; afterwards k is absent and every other item is stored once.
C37_InternalRemoveUsesPredecessor ==
    [][(op'.name = "Remove" /\ "deleteInternal" \in op'.ev) =>
        LET r == searchRecursively(TreeState, Root, op'.item)
            before == InOrder(TreeState, Root)
            j == CHOOSE i \in DOMAIN before : Key(before[i]) = Key(op'.item)
            leaf == right(TreeState, At(heap[r.node].Children, r.index))
            fixups == op'.ev \cap {"borrowLeft", "borrowRight",
                                   "mergeLeft", "mergeRight", "noSibling"}
        IN  /\ r.found /\ heap[r.node].Children # <<>>
            /\ j > 1
            /\ heap[leaf].Children = <<>>
            /\ heap[leaf].Contents[Len(heap[leaf].Contents)] = before[j - 1]
            /\ Root' # Nil
            /\ InOrder(TreeStateAfter, Root') = Without(before, j)
            /\ fixups = {} <=> Len(heap[leaf].Contents) > minContents
            /\ fixups = {} =>
                  \E n \in DOMAIN heap' :
                      /\ heap'[n].Children # <<>>
                      /\ heap'[n].Contents =
                            [heap[r.node].Contents EXCEPT ![r.index + 1] = before[j - 1]]
       ]_vars

C37_Witness ==
    /\ op.name = "Remove" /\ Did("deleteInternal") /\ Merged
    /\ Height(TreeState) = 2 /\ m = MinOrder

\* C38: after every call the root is absent exactly when Size() is 0; the
\* root of a non-empty tree holds at least one item and, if it is not a
\* leaf, has at least two children.
C38_RootOfNonEmptyTree ==
    /\ Root = Nil <=> size = 0
    /\ Root # Nil =>
          /\ Len(heap[Root].Contents) >= 1
          /\ heap[Root].Children # <<>> => Len(heap[Root].Children) >= 2

C38_Witness ==
    /\ op.name = "Remove" /\ Did("collapse") /\ Merged
    /\ Height(TreeState) = 1 /\ size = 2

\* C39: VerifyContent(expectedMerkleRoot, content) returns true only if
\* the chain of digests from the content's leaf up to the root ends in
\* expectedMerkleRoot: with another digest than the tree's root digest it
\* returns false.
C39_VerifyContentChecksExpectedRoot ==
    (mt.call = "VerifyContent" /\ mt.ret.ok) => mt.root = MerkleRoot(mt.tree)

====
